---------------------------- MODULE Spec2Model ----------------------------
(***************************************************************************)
(* Model of lute/settings/routes.py: the settings form (edit_settings),    *)
(* the mecab test parse (test_parse), the single key setter                *)
(* (set_key_value) and the Japanese parser switch (set_parser).            *)
(*                                                                         *)
(* The collaborators the routes import (UserSetting, db.session,           *)
(* JapaneseParser, parser_instances / get_parser) are not part of          *)
(* routes.py; they are modelled from the specification's contracts for     *)
(* SettingsStore, the persistence collaborator, ReconfigurableParser and   *)
(* ParserRegistry.  The only error of the settings store is the            *)
(* specification's UnknownKeyError: set_value raises it for a key that is  *)
(* not recognized, get_value raises it when it is strict and returns None  *)
(* when it is not (the routes do not say which they need, so both are      *)
(* possible).  db.session.commit() is the persistence engine and           *)
(* completes.                                                              *)
(*                                                                         *)
(* Every request runs in a thread of Threads.  A handler is cut into one   *)
(* step per access to shared state (the settings store, the durable        *)
(* store, the parser registry).  Spec runs the requests one at a time;     *)
(* SpecConc lets the steps of two requests interleave, which is what a     *)
(* threaded WSGI server does with handlers that take no lock.              *)
(***************************************************************************)
EXTENDS Integers, Sequences, FiniteSets, TLC

VARIABLES
    store,      \* UserSetting: key -> value as seen by get_value (staged writes)
    durable,    \* the settings as of the last db.session.commit()
    parser,     \* parser_instances["japanese"]: NoParser or the instance
    regBuilt,   \* parser objects constructed by get_parser("japanese")
    probeBuilt, \* parser objects constructed by test_parse's JapaneseParser()
    req         \* per thread: the request it is serving and the handler's locals

vars == <<store, durable, parser, regBuilt, probeBuilt, req>>

---------------------------------------------------------------------------
(* Bounds *)

\* test_parse requests are admitted while fewer than MaxProbes probe parsers
\* have been constructed.
MaxProbes == 2

Threads == {"t1", "t2"}

---------------------------------------------------------------------------
(* Values *)

None == "None"

GoodPath == "/opt/mecab"
BadPath  == "/bad/path"
Paths    == {GoodPath, BadPath}

\* what a caller may put in ?mecab_path= of /test_mecab; None when the
\* argument is missing (routes.py line 127)
TestArgs == Paths \cup {None}

\* unidic_choices, routes.py line 61
unidic_choices == {"spoken", "writing"}

\* what a caller may put in the URL of /set_japanese_parser/<unidic_type>
UnidicArgs == unidic_choices \cup {"other"}

\* keys of the settings table that the model follows (fields of UserSettingsForm)
KnownKeys == {"backup_enabled", "backup_dir", "backup_count",
              "mecab_path", "unidic_types"}

\* (key, value) pairs a caller may put in the URL of /set/<key>/<value>
SetArgs == ({"mecab_path"} \X Paths)
           \cup ({"unidic_types"} \X unidic_choices)
           \cup {<<"no_such_key", "x">>}

InitStore == [k \in KnownKeys |->
                CASE k = "backup_enabled" -> FALSE
                  [] k = "backup_dir"     -> ""
                  [] k = "backup_count"   -> 1
                  [] k = "mecab_path"     -> GoodPath
                  [] k = "unidic_types"   -> "spoken"]

---------------------------------------------------------------------------
(* UserSetting and db.session *)

\* A key that is not in the settings table is not recognized.
Unrecognized(k) == k \notin DOMAIN store

\* UserSetting.get_value(k) when it does not raise: the stored value, None
\* for a key that is not recognized.
get_value(k) == IF Unrecognized(k) THEN None ELSE store[k]

\* UserSetting.set_value(k, v) raises for a key that is not recognized and
\* leaves the store as it was.
set_value_raises(k) == Unrecognized(k)

\* UserSetting.set_value(k, v) when it does not raise: the value is visible
\* to the next get_value at once, and is not yet durable.
set_value(k, v) == [store EXCEPT ![k] = v]

\* db.session.commit(): everything staged becomes durable.
commit == store

---------------------------------------------------------------------------
(* JapaneseParser *)

\* No instance: what parser_instances["japanese"] holds before get_parser.
NoParser == [id |-> 0, variant |-> None, mecab |-> None]

\* Constructing the parser needs a reachable mecab at the configured path.
CanConstruct(path) == path = GoodPath

\* A parser instance constructed from the current settings.
JapaneseParser(id) == [id |-> id,
                       variant |-> get_value("unidic_types"),
                       mecab |-> get_value("mecab_path")]

\* switch_tagger rejects a variant that is no unidic type.
SwitchSupported(v) == v \in unidic_choices

switch_tagger(p, v) == [p EXCEPT !.variant = v]

\* What get_parsed_tokens returns for the test sentence: the tokens, then
\* the paragraph marker (written PARA here).
ParagraphMark == "PARA"
ParsedTokens == <<"watashi", "wa", "genki", "desu", ParagraphMark>>

\* line 137 without its condition: every token is kept.
FilterTokens_KeepsAll(toks) == toks

\* routes.py line 137: [tok.token for tok in toks if tok.token != "¶"]
FilterTokens(toks) == SelectSeq(toks, LAMBDA tok : tok # ParagraphMark)

---------------------------------------------------------------------------
(* Requests *)

\* result = {"failure": "tbd"}, routes.py line 129
Placeholder == [result |-> "tbd", message |-> <<>>]
Success(msg) == [result |-> "success", message |-> msg]
Failure(kind) == [result |-> "failure", message |-> <<kind>>]
NoResult == [result |-> "none", message |-> <<>>]

NoSnap == [store |-> InitStore, durable |-> InitStore]
NoPost == [sent |-> FALSE, backup_enabled |-> FALSE, backup_dir |-> None]

\* op, pc: the handler and its position; key, value, old, result: its
\* locals; outcome: returned or raised.  The other fields record what the
\* call did: wrote (the first set_value: ok or failed, none when the call
\* made no set_value), preInst (the
\* registry's instance when the call began), nbuilt (parsers the call
\* constructed), switchCalled (switch_tagger was invoked), sawNone (line 168
\* found no instance), got (id of the instance the call used), formErrors
\* (the fields of a posted form that failed validation), snap (store and
\* durable store when edit_settings began), submitted (the data of the
\* fields of a valid posted form), flushes (db.session.commit() calls the
\* handler made), posted (backup_enabled and backup_dir of a posted form,
\* as validate_backup_dir got them).
Idle == [op |-> "idle", pc |-> "idle", key |-> None, value |-> None,
         old |-> None, result |-> NoResult, outcome |-> "none",
         wrote |-> "none", preInst |-> NoParser, nbuilt |-> 0,
         switchCalled |-> FALSE, got |-> 0, sawNone |-> FALSE,
         formErrors |-> {}, snap |-> NoSnap, submitted |-> InitStore,
         flushes |-> 0, posted |-> NoPost]

Raised(r) == [r EXCEPT !.pc = "done", !.outcome = "raised", !.result = NoResult]
Returned(r) == [r EXCEPT !.pc = "done", !.outcome = "returned"]

AllIdle == \A t \in Threads : req[t].pc = "idle"

Init ==
    /\ store = InitStore
    /\ durable = InitStore
    /\ parser = NoParser
    /\ regBuilt = 0
    /\ probeBuilt = 0
    /\ req = [t \in Threads |-> Idle]

---------------------------------------------------------------------------
(* test_parse, routes.py lines 118-146 *)

\* lines 127-129: read the candidate from the request, read the old
\* setting (outside the try), set the placeholder result.
TestParseBegin(t, c) ==
    /\ req[t].pc = "idle"
    /\ probeBuilt < MaxProbes
    /\ \E strict \in BOOLEAN :
         LET r == [Idle EXCEPT !.op = "test_parse", !.key = "mecab_path",
                               !.value = c, !.preInst = parser]
         IN  IF Unrecognized("mecab_path") /\ strict
             THEN req' = [req EXCEPT ![t] = Raised(r)]
             ELSE req' = [req EXCEPT ![t] = [r EXCEPT !.pc = "tp_set",
                              !.old = get_value("mecab_path"),
                              !.result = Placeholder]]
    /\ UNCHANGED <<store, durable, parser, regBuilt, probeBuilt>>

\* test_parse with a db.session.commit() after line 131: the tentative
\* value becomes durable.
TestParseSet_Commits(t) ==
    /\ req[t].pc = "tp_set"
    /\ IF set_value_raises("mecab_path")
       THEN /\ store' = store
            /\ durable' = durable
            /\ req' = [req EXCEPT ![t].pc = "tp_restore",
                                  ![t].wrote = "failed",
                                  ![t].result = Failure("UnknownKeyError")]
       ELSE /\ store' = set_value("mecab_path", req[t].value)
            /\ durable' = store'
            /\ req' = [req EXCEPT ![t].pc = "tp_probe", ![t].wrote = "ok",
                                  ![t].flushes = @ + 1]
    /\ UNCHANGED <<parser, regBuilt, probeBuilt>>

\* line 131: the tentative write; an error goes to the except clause
\* (lines 140-142) and then to the finally clause.
TestParseSet(t) ==
    /\ req[t].pc = "tp_set"
    /\ IF set_value_raises("mecab_path")
       THEN /\ store' = store
            /\ req' = [req EXCEPT ![t].pc = "tp_restore",
                                  ![t].wrote = "failed",
                                  ![t].result = Failure("UnknownKeyError")]
       ELSE /\ store' = set_value("mecab_path", req[t].value)
            /\ req' = [req EXCEPT ![t].pc = "tp_probe", ![t].wrote = "ok"]
    /\ UNCHANGED <<durable, parser, regBuilt, probeBuilt>>

\* test_parse whose probe parser is put into parser_instances.
TestParseProbe_KeepsParser(t) ==
    /\ req[t].pc = "tp_probe"
    /\ IF CanConstruct(get_value("mecab_path"))
       THEN /\ probeBuilt' = probeBuilt + 1
            /\ parser' = JapaneseParser(probeBuilt + 1)
            /\ req' = [req EXCEPT ![t].pc = "tp_restore",
                                  ![t].nbuilt = @ + 1,
                                  ![t].result = Success(FilterTokens(ParsedTokens))]
       ELSE /\ probeBuilt' = probeBuilt
            /\ parser' = parser
            /\ req' = [req EXCEPT ![t].pc = "tp_restore",
                                  ![t].result = Failure("ParserInitError")]
    /\ UNCHANGED <<store, durable, regBuilt>>

\* lines 133-142: construct a parser of its own from the settings as they
\* are now, parse the test sentence, build the result.
TestParseProbe(t) ==
    /\ req[t].pc = "tp_probe"
    /\ IF CanConstruct(get_value("mecab_path"))
       THEN /\ probeBuilt' = probeBuilt + 1
            /\ \E parsed \in BOOLEAN :
                 req' = [req EXCEPT ![t].pc = "tp_restore",
                           ![t].nbuilt = @ + 1,
                           ![t].result =
                               IF parsed
                               THEN Success(FilterTokens(ParsedTokens))
                               ELSE Failure("ParseError")]
       ELSE /\ probeBuilt' = probeBuilt
            /\ req' = [req EXCEPT ![t].pc = "tp_restore",
                                  ![t].result = Failure("ParserInitError")]
    /\ UNCHANGED <<store, durable, parser, regBuilt>>

\* test_parse with the write-back in the except clause instead of the
\* finally clause: the old setting comes back only after a failure.
TestParseRestore_OnFailureOnly(t) ==
    /\ req[t].pc = "tp_restore"
    /\ IF req[t].result.result = "failure"
       THEN store' = set_value("mecab_path", req[t].old)
       ELSE store' = store
    /\ req' = [req EXCEPT ![t] = Returned(@)]
    /\ UNCHANGED <<durable, parser, regBuilt, probeBuilt>>

\* lines 143-146: the finally clause writes the old setting back, then the
\* result is returned; an error of this write leaves the handler.
TestParseRestore(t) ==
    /\ req[t].pc = "tp_restore"
    /\ IF set_value_raises("mecab_path")
       THEN /\ store' = store
            /\ req' = [req EXCEPT ![t] = Raised(@)]
       ELSE /\ store' = set_value("mecab_path", req[t].old)
            /\ req' = [req EXCEPT ![t] = Returned(@)]
    /\ UNCHANGED <<durable, parser, regBuilt, probeBuilt>>

---------------------------------------------------------------------------
(* set_key_value, routes.py lines 149-161 *)

\* line 152: read the old value (outside the try).
SetKeyValueBegin(t, k, v) ==
    /\ req[t].pc = "idle"
    /\ \E strict \in BOOLEAN :
         LET r == [Idle EXCEPT !.op = "set_key_value", !.key = k,
                               !.value = v, !.preInst = parser]
         IN  IF Unrecognized(k) /\ strict
             THEN req' = [req EXCEPT ![t] = Raised(r)]
             ELSE req' = [req EXCEPT ![t] = [r EXCEPT !.pc = "skv_set",
                                                      !.old = get_value(k)]]
    /\ UNCHANGED <<store, durable, parser, regBuilt, probeBuilt>>

\* set_key_value that reports success without having written.
SetKeyValueSet_NoWrite(t) ==
    /\ req[t].pc = "skv_set"
    /\ store' = store
    /\ req' = [req EXCEPT ![t].pc = "skv_commit", ![t].wrote = "ok",
                          ![t].result = Success(<<"OK">>)]
    /\ UNCHANGED <<durable, parser, regBuilt, probeBuilt>>

\* lines 154-157: the write; on an error the except clause is entered.
SetKeyValueSet(t) ==
    /\ req[t].pc = "skv_set"
    /\ IF set_value_raises(req[t].key)
       THEN /\ store' = store
            /\ req' = [req EXCEPT ![t].pc = "skv_restore",
                                  ![t].wrote = "failed"]
       ELSE /\ store' = set_value(req[t].key, req[t].value)
            /\ req' = [req EXCEPT ![t].pc = "skv_commit", ![t].wrote = "ok",
                                  ![t].result = Success(<<"OK">>)]
    /\ UNCHANGED <<durable, parser, regBuilt, probeBuilt>>

\* lines 158-159: inside the except clause, write the old value back and
\* build the failure result; an error of this write leaves the handler.
SetKeyValueRestore(t) ==
    /\ req[t].pc = "skv_restore"
    /\ IF set_value_raises(req[t].key)
       THEN /\ store' = store
            /\ req' = [req EXCEPT ![t] = Raised(@)]
       ELSE /\ store' = set_value(req[t].key, req[t].old)
            /\ req' = [req EXCEPT ![t].pc = "skv_commit",
                                  ![t].result = Failure("UnknownKeyError")]
    /\ UNCHANGED <<durable, parser, regBuilt, probeBuilt>>

\* lines 160-161: commit after either branch, return the result.
SetKeyValueCommit(t) ==
    /\ req[t].pc = "skv_commit"
    /\ durable' = commit
    /\ req' = [req EXCEPT ![t] = Returned([@ EXCEPT !.flushes = @ + 1])]
    /\ UNCHANGED <<store, parser, regBuilt, probeBuilt>>

---------------------------------------------------------------------------
(* set_parser, routes.py lines 164-171, and get_parser of the registry *)

\* get_parser constructs only when the registry holds no instance.
get_parser_constructs == parser = NoParser

\* lines 166-167: nothing to do when the argument is the stored setting.
SetParserBegin(t, u) ==
    /\ req[t].pc = "idle"
    /\ LET r == [Idle EXCEPT !.op = "set_parser", !.key = "unidic_types",
                             !.value = u, !.preInst = parser]
       IN  IF u = get_value("unidic_types")
           THEN req' = [req EXCEPT ![t] = Returned([r EXCEPT !.result = Success(<<u>>)])]
           ELSE req' = [req EXCEPT ![t] = [r EXCEPT !.pc = "sp_check"]]
    /\ UNCHANGED <<store, durable, parser, regBuilt, probeBuilt>>

\* set_parser without lines 168-169: no lazy construction.
SetParserCheck_NoLazyGet(t) ==
    /\ req[t].pc = "sp_check"
    /\ req' = [req EXCEPT ![t].pc = "sp_switch"]
    /\ UNCHANGED <<store, durable, parser, regBuilt, probeBuilt>>

\* line 168: if not parser_instances["japanese"]
SetParserCheck(t) ==
    /\ req[t].pc = "sp_check"
    /\ IF parser = NoParser
       THEN req' = [req EXCEPT ![t].pc = "sp_get", ![t].sawNone = TRUE]
       ELSE req' = [req EXCEPT ![t].pc = "sp_switch"]
    /\ UNCHANGED <<store, durable, parser, regBuilt, probeBuilt>>

\* set_parser with line 169 constructing the parser itself instead of
\* asking get_parser: whoever gets here fills the registry anew.
SetParserGet_ConstructsItself(t) ==
    /\ req[t].pc = "sp_get"
    /\ IF CanConstruct(get_value("mecab_path"))
       THEN /\ parser' = JapaneseParser(regBuilt + 1)
            /\ regBuilt' = regBuilt + 1
            /\ req' = [req EXCEPT ![t].pc = "sp_switch",
                                  ![t].nbuilt = @ + 1,
                                  ![t].got = regBuilt + 1]
       ELSE /\ req' = [req EXCEPT ![t] = Raised(@)]
            /\ UNCHANGED <<parser, regBuilt>>
    /\ UNCHANGED <<store, durable, probeBuilt>>

\* set_parser with line 169 in a try that swallows the error of
\* get_parser: line 170 is reached without an instance.
SetParserGet_SwallowsError(t) ==
    /\ req[t].pc = "sp_get"
    /\ IF get_parser_constructs
       THEN IF CanConstruct(get_value("mecab_path"))
            THEN /\ parser' = JapaneseParser(regBuilt + 1)
                 /\ regBuilt' = regBuilt + 1
                 /\ req' = [req EXCEPT ![t].pc = "sp_switch",
                                       ![t].nbuilt = @ + 1,
                                       ![t].got = regBuilt + 1]
            ELSE /\ req' = [req EXCEPT ![t].pc = "sp_switch"]
                 /\ UNCHANGED <<parser, regBuilt>>
       ELSE /\ req' = [req EXCEPT ![t].pc = "sp_switch", ![t].got = parser.id]
            /\ UNCHANGED <<parser, regBuilt>>
    /\ UNCHANGED <<store, durable, probeBuilt>>

\* line 169: get_parser("japanese") constructs the instance from the
\* settings as they are now and keeps it in the registry; when the
\* construction fails nothing is kept and the error leaves the handler.
SetParserGet(t) ==
    /\ req[t].pc = "sp_get"
    /\ IF get_parser_constructs
       THEN IF CanConstruct(get_value("mecab_path"))
            THEN /\ parser' = JapaneseParser(regBuilt + 1)
                 /\ regBuilt' = regBuilt + 1
                 /\ req' = [req EXCEPT ![t].pc = "sp_switch",
                                       ![t].nbuilt = @ + 1,
                                       ![t].got = regBuilt + 1]
            ELSE /\ req' = [req EXCEPT ![t] = Raised(@)]
                 /\ UNCHANGED <<parser, regBuilt>>
       ELSE /\ req' = [req EXCEPT ![t].pc = "sp_switch", ![t].got = parser.id]
            /\ UNCHANGED <<parser, regBuilt>>
    /\ UNCHANGED <<store, durable, probeBuilt>>

\* set_parser that also stores the variant it switched to.
SetParserSwitch_WritesSetting(t) ==
    /\ req[t].pc = "sp_switch"
    /\ IF parser = NoParser
       THEN /\ req' = [req EXCEPT ![t] = Raised(@)]
            /\ parser' = parser
            /\ store' = store
       ELSE IF SwitchSupported(req[t].value)
            THEN /\ parser' = switch_tagger(parser, req[t].value)
                 /\ store' = set_value("unidic_types", req[t].value)
                 /\ req' = [req EXCEPT ![t] = Returned([@ EXCEPT
                                !.switchCalled = TRUE, !.got = parser.id,
                                !.result = Success(<<req[t].value>>)])]
            ELSE /\ parser' = parser
                 /\ store' = store
                 /\ req' = [req EXCEPT ![t] = Raised([@ EXCEPT
                                !.switchCalled = TRUE, !.got = parser.id])]
    /\ UNCHANGED <<durable, regBuilt, probeBuilt>>

\* lines 170-171: switch the tagger of the registry's instance and return
\* the argument; an unsupported variant raises and leaves the instance as
\* it was.
SetParserSwitch(t) ==
    /\ req[t].pc = "sp_switch"
    /\ IF parser = NoParser
       THEN /\ req' = [req EXCEPT ![t] = Raised(@)]
            /\ parser' = parser
       ELSE IF SwitchSupported(req[t].value)
            THEN /\ parser' = switch_tagger(parser, req[t].value)
                 /\ req' = [req EXCEPT ![t] = Returned([@ EXCEPT
                                !.switchCalled = TRUE, !.got = parser.id,
                                !.result = Success(<<req[t].value>>)])]
            ELSE /\ parser' = parser
                 /\ req' = [req EXCEPT ![t] = Raised([@ EXCEPT
                                !.switchCalled = TRUE, !.got = parser.id])]
    /\ UNCHANGED <<store, durable, regBuilt, probeBuilt>>

---------------------------------------------------------------------------
(* UserSettingsForm and edit_settings, routes.py lines 27-115 *)

\* The file system the validator looks at, and what a caller may post as
\* backup_dir (None when the field is missing from the post).
Cwd == "/lute"
BackupDirs == {None, "", " ", "backups", "/mnt/backup", "/mnt/backup/",
               "/mnt/none", "/etc/hosts"}

\* v.strip()
strip(v) == IF v = " " THEN "" ELSE v

\* os.path.abspath(v)
abspath(v) == CASE v = ""             -> Cwd
                [] v = " "            -> "/lute/ "
                [] v = "backups"      -> "/lute/backups"
                [] v = "/mnt/backup/" -> "/mnt/backup"
                [] OTHER              -> v

\* os.path.exists(v), os.path.isdir(v)
exists(v) == v \in {"/mnt/backup", "/mnt/backup/", "/etc/hosts", "/lute"}
isdir(v)  == v \in {"/mnt/backup", "/mnt/backup/", "/lute"}

\* validate_backup_dir without lines 78-79: any existing path will do.
validate_backup_dir_NoIsdir(backup_enabled, v) ==
    IF backup_enabled = FALSE THEN "ok"
    ELSE IF strip(IF v = None THEN "" ELSE v) = "" THEN "Backup directory required"
    ELSE IF v # abspath(v) THEN "Backup dir must be absolute path"
    ELSE IF ~ exists(v) THEN "does not exist"
    ELSE "ok"

\* lines 64-79: the message of the ValidationError raised, "ok" when none is.
validate_backup_dir(backup_enabled, v) ==
    IF backup_enabled = FALSE THEN "ok"
    ELSE IF strip(IF v = None THEN "" ELSE v) = "" THEN "Backup directory required"
    ELSE IF v # abspath(v) THEN "Backup dir must be absolute path"
    ELSE IF ~ exists(v) THEN "does not exist"
    ELSE IF ~ isdir(v) THEN "is not a directory"
    ELSE "ok"

\* IntegerField: whether the posted text is an integer, and which.
IsInteger(raw) == raw \in {"0", "5"}
IntegerData(raw) == CASE raw = "0" -> 0
                      [] raw = "5" -> 5

\* lines 38-40: InputRequired(), NumberRange(min=1)
backup_count_valid(raw) ==
    /\ raw # ""
    /\ IsInteger(raw)
    /\ IntegerData(raw) >= 1

\* The forms a caller may send: the method, the CSRF token's validity and
\* the posted fields.
Forms == [method : {"GET", "POST"}, csrf_ok : BOOLEAN,
          backup_enabled : BOOLEAN, backup_dir : BackupDirs,
          backup_count : {"", "0", "5"}, mecab_path : Paths,
          unidic_types : UnidicArgs]

\* form.validate(): the fields whose validators fail.
FormErrors(f) ==
    {k \in {"csrf_token", "backup_dir", "backup_count", "unidic_types"} :
        CASE k = "csrf_token"   -> ~ f.csrf_ok
          [] k = "backup_dir"   -> validate_backup_dir(f.backup_enabled, f.backup_dir) # "ok"
          [] k = "backup_count" -> ~ backup_count_valid(f.backup_count)
          [] k = "unidic_types" -> f.unidic_types \notin unidic_choices}

\* validate_on_submit of a form whose validate_backup_dir is never called.
validate_on_submit_without_backup_dir(f) ==
    f.method = "POST" /\ FormErrors(f) \ {"backup_dir"} = {}

\* form.validate_on_submit(), line 97
validate_on_submit(f) == f.method = "POST" /\ FormErrors(f) = {}

\* lines 99-101: set_value(field.id, field.data) for every field of the form
FormData(f) == [k \in KnownKeys |->
                  CASE k = "backup_enabled" -> f.backup_enabled
                    [] k = "backup_dir"     -> f.backup_dir
                    [] k = "backup_count"   -> IntegerData(f.backup_count)
                    [] k = "mecab_path"     -> f.mecab_path
                    [] k = "unidic_types"   -> f.unidic_types]

\* edit_settings without line 102: the fields are set and never committed.
edit_settings_NoCommit(t, f) ==
    /\ req[t].pc = "idle"
    /\ LET r == [Idle EXCEPT !.op = "edit_settings", !.preInst = parser,
                     !.formErrors = IF f.method = "POST" THEN FormErrors(f) ELSE {},
                     !.posted = IF f.method = "POST"
                                THEN [sent |-> TRUE,
                                      backup_enabled |-> f.backup_enabled,
                                      backup_dir |-> f.backup_dir]
                                ELSE NoPost,
                     !.snap = [store |-> store, durable |-> durable]]
       IN  IF validate_on_submit(f)
           THEN /\ store' = [k \in DOMAIN store |-> FormData(f)[k]]
                /\ durable' = durable
                /\ req' = [req EXCEPT ![t] = Returned([r EXCEPT
                               !.wrote = "ok", !.submitted = FormData(f),
                               !.result = Success(<<"Settings updated">>)])]
           ELSE /\ UNCHANGED <<store, durable>>
                /\ req' = [req EXCEPT ![t] = Returned([r EXCEPT
                               !.result = [result |-> "form", message |-> <<>>]])]
    /\ UNCHANGED <<parser, regBuilt, probeBuilt>>

\* lines 86-115: a valid post sets every field and commits once; anything
\* else only reads the settings to fill the form that is rendered.
edit_settings(t, f) ==
    /\ req[t].pc = "idle"
    /\ LET r == [Idle EXCEPT !.op = "edit_settings", !.preInst = parser,
                     !.formErrors = IF f.method = "POST" THEN FormErrors(f) ELSE {},
                     !.posted = IF f.method = "POST"
                                THEN [sent |-> TRUE,
                                      backup_enabled |-> f.backup_enabled,
                                      backup_dir |-> f.backup_dir]
                                ELSE NoPost,
                     !.snap = [store |-> store, durable |-> durable]]
       IN  IF validate_on_submit(f)
           THEN /\ store' = [k \in DOMAIN store |-> FormData(f)[k]]
                /\ durable' = store'
                /\ req' = [req EXCEPT ![t] = Returned([r EXCEPT
                               !.wrote = "ok", !.submitted = FormData(f),
                               !.flushes = @ + 1,
                               !.result = Success(<<"Settings updated">>)])]
           ELSE /\ UNCHANGED <<store, durable>>
                /\ req' = [req EXCEPT ![t] = Returned([r EXCEPT
                               !.result = [result |-> "form", message |-> <<>>]])]
    /\ UNCHANGED <<parser, regBuilt, probeBuilt>>

---------------------------------------------------------------------------
(* Specifications *)

\* The response has been sent; the thread takes the next request.
Finish(t) ==
    /\ req[t].pc = "done"
    /\ req' = [req EXCEPT ![t] = Idle]
    /\ UNCHANGED <<store, durable, parser, regBuilt, probeBuilt>>

\* A request arrives at thread t.
Begin(t) ==
    \/ \E c \in TestArgs : TestParseBegin(t, c)
    \/ \E a \in SetArgs : SetKeyValueBegin(t, a[1], a[2])
    \/ \E u \in UnidicArgs : SetParserBegin(t, u)

\* The handler running in thread t takes its next step.
Step(t) ==
    \/ TestParseSet(t)
    \/ TestParseProbe(t)
    \/ TestParseRestore(t)
    \/ SetKeyValueSet(t)
    \/ SetKeyValueRestore(t)
    \/ SetKeyValueCommit(t)
    \/ SetParserCheck(t)
    \/ SetParserGet(t)
    \/ SetParserSwitch(t)
    \/ Finish(t)

\* One request at a time.
Next ==
    \E t \in Threads :
        \/ (AllIdle /\ Begin(t))
        \/ (AllIdle /\ \E f \in Forms : edit_settings(t, f))
        \/ Step(t)

Spec == Init /\ [][Next]_vars

\* The handlers of two threads interleave step by step.
NextConc ==
    \E t \in Threads :
        \/ Begin(t)
        \/ Step(t)

SpecConc == Init /\ [][NextConc]_vars

---------------------------------------------------------------------------
(* Properties *)

Done(t, op) == req[t].op = op /\ req[t].pc = "done"

\* C1: when test_parse returns, get_value("mecab_path") is the value it
\* was when the call began, whatever the candidate and whether the probe
\* succeeded or raised.
C1_TestParseRestores ==
    \A t \in Threads :
        (Done(t, "test_parse") /\ req[t].outcome = "returned")
            => get_value("mecab_path") = req[t].old

\* A test of a candidate that differs from the setting, whose probe failed,
\* has returned.
C1_Witness ==
    \E t \in Threads :
        /\ Done(t, "test_parse") /\ req[t].outcome = "returned"
        /\ req[t].wrote = "ok"
        /\ req[t].value # req[t].old
        /\ req[t].result = Failure("ParserInitError")

\* C2: when the write of set_key_value(k, v) succeeds, the call returns
\* success and get_value(k) is v.
C2_SetThenGet ==
    \A t \in Threads :
        (Done(t, "set_key_value") /\ req[t].wrote = "ok")
            => /\ req[t].outcome = "returned"
               /\ req[t].result.result = "success"
               /\ get_value(req[t].key) = req[t].value

\* A set_key_value that changed the value of its key has returned.
C2_Witness ==
    \E t \in Threads :
        /\ Done(t, "set_key_value") /\ req[t].wrote = "ok"
        /\ req[t].value # req[t].old
        /\ get_value(req[t].key) = req[t].value

\* C3: when the write of set_key_value fails, the call returns a failure
\* with a message and get_value(k) is the value read at the start.
C3_FailedWriteReportsFailure ==
    \A t \in Threads :
        (Done(t, "set_key_value") /\ req[t].wrote = "failed")
            => /\ req[t].outcome = "returned"
               /\ req[t].result.result = "failure"
               /\ req[t].result.message # <<>>
               /\ get_value(req[t].key) = req[t].old

\* C4: after set_parser(v) returns, the registry's instance has variant v
\* whenever it had another variant before the call.
C4_SwitchTakesEffect ==
    \A t \in Threads :
        (/\ Done(t, "set_parser") /\ req[t].outcome = "returned"
         /\ req[t].preInst # NoParser
         /\ req[t].preInst.variant # req[t].value)
            => parser.variant = req[t].value

\* C5: set_parser(v) on an instance that already has variant v does not
\* invoke switch_tagger and leaves the instance as it was.
C5_SameVariantIsNoOp ==
    \A t \in Threads :
        (/\ Done(t, "set_parser")
         /\ req[t].preInst # NoParser
         /\ req[t].preInst.variant = req[t].value)
            => (~ req[t].switchCalled /\ parser = req[t].preInst)

\* C6: the read-old / write-new / restore sequences on one key do not
\* interleave: when test_parse writes the old value back while a
\* set_key_value on mecab_path that has written is being served, the value
\* it replaces is its own tentative value, never the value the other
\* request wrote in between.
C6_RestoreLosesNoUpdate ==
    [][\A t, u \in Threads :
          (/\ req[t].pc = "tp_restore" /\ req'[t].pc = "done"
           /\ req[t].wrote = "ok"
           /\ req[u].op = "set_key_value" /\ req[u].key = "mecab_path"
           /\ req[u].wrote = "ok")
              => store["mecab_path"] = req[t].value]_vars

C8_AtMostOneParserObject == regBuilt + probeBuilt <= 1

\* C8 as amended: the registry constructs its instance at most once and is
\* the only one to fill parser_instances; the parsers that test_parse
\* constructs for its probes are further objects that never get there.
C8_RegistryBuildsOnce ==
    /\ regBuilt <= 1
    /\ (parser = NoParser) <=> (regBuilt = 0)
    /\ parser # NoParser => parser.id = 1

\* The registry has built its instance and a probe has built another.
C8_Witness == regBuilt = 1 /\ probeBuilt >= 1 /\ parser # NoParser

\* C9: set_parser never replaces an instance the registry holds, and when
\* the registry holds none it constructs exactly one before switch_tagger
\* is invoked.
C9_ReconfigureKeepsInstance ==
    \A t \in Threads :
        req[t].op = "set_parser" =>
            /\ req[t].preInst # NoParser =>
                   /\ req[t].nbuilt = 0
                   /\ parser.id = req[t].preInst.id
                   /\ parser.mecab = req[t].preInst.mecab
            /\ (req[t].pc = "sp_switch" \/ req[t].switchCalled) =>
                   /\ parser # NoParser
                   /\ req[t].preInst = NoParser => req[t].nbuilt = 1

\* A set_parser that found no instance has constructed one and switched it.
C9_Witness ==
    \E t \in Threads :
        /\ Done(t, "set_parser") /\ req[t].outcome = "returned"
        /\ req[t].preInst = NoParser
        /\ req[t].nbuilt = 1 /\ req[t].switchCalled
        /\ parser.variant = req[t].value

\* C10: a posted form that fails validation sets nothing and commits
\* nothing: the store and the durable store are as they were.
C10_RejectedFormWritesNothing ==
    \A t \in Threads :
        (Done(t, "edit_settings") /\ req[t].formErrors # {})
            => /\ req[t].wrote = "none"
               /\ store = req[t].snap.store
               /\ durable = req[t].snap.durable

\* A form whose backup directory is rejected, and which would have changed
\* the settings, has been answered.
C10_Witness ==
    \E t \in Threads :
        /\ Done(t, "edit_settings")
        /\ "backup_dir" \in req[t].formErrors
        /\ req[t].result.result = "form"

\* C11: a posted form that passes validation has every field's data set,
\* then one commit: afterwards get_value(k) is the submitted value for
\* every field k, and so is the durable value.
C11_ValidFormSetsAndCommitsAll ==
    \A t \in Threads :
        (Done(t, "edit_settings") /\ req[t].formErrors = {}
         /\ req[t].result.result = "success")
            => /\ \A k \in KnownKeys :
                    /\ get_value(k) = req[t].submitted[k]
                    /\ durable[k] = req[t].submitted[k]
               /\ req[t].flushes = 1

\* A valid form with backup enabled, an existing absolute directory and a
\* count of 5 has been applied, and it changed the settings.
C11_Witness ==
    \E t \in Threads :
        /\ Done(t, "edit_settings") /\ req[t].result.result = "success"
        /\ req[t].submitted["backup_enabled"] = TRUE
        /\ req[t].submitted["backup_dir"] = "/mnt/backup"
        /\ get_value("backup_count") = 5
        /\ durable["backup_count"] = 5
        /\ req[t].snap.durable["backup_count"] # 5

\* C12: validate_backup_dir accepts any backup_dir, the empty one
\* included, when backup_enabled is false; when it is true it rejects a
\* missing, empty or blank value, a value that differs from its absolute
\* form, a path that does not exist and an existing path that is no
\* directory, and accepts an existing absolute directory only.
C12_BackupDirValidator ==
    \A t \in Threads :
        (Done(t, "edit_settings") /\ req[t].posted.sent) =>
            LET v == req[t].posted.backup_dir
                rejected == "backup_dir" \in req[t].formErrors
            IN  IF req[t].posted.backup_enabled
                THEN rejected <=> \/ v \in {None, "", " "}
                                  \/ v # abspath(v)
                                  \/ ~ exists(v)
                                  \/ ~ isdir(v)
                ELSE ~ rejected

\* A post with backup enabled and an existing file as the directory has
\* been rejected.
C12_Witness ==
    \E t \in Threads :
        /\ Done(t, "edit_settings") /\ req[t].posted.sent
        /\ req[t].posted.backup_enabled
        /\ req[t].posted.backup_dir = "/etc/hosts"
        /\ "backup_dir" \in req[t].formErrors

\* C13: no error of test_parse or set_key_value leaves the handler: the
\* call returns, and when a step raised (the read of the old value, the
\* write, the probe, the write-back) what it returns is a failure with a
\* message, with the store's value of the key as it was before the call.
C13_NoErrorEscapes ==
    \A t \in Threads :
        (req[t].pc = "done" /\ req[t].op \in {"test_parse", "set_key_value"})
            => /\ req[t].outcome = "returned"
               /\ req[t].wrote = "failed" =>
                      /\ req[t].result.result = "failure"
                      /\ req[t].result.message # <<>>
                      /\ get_value(req[t].key) = req[t].old

\* C14: test_parse makes no db.session.commit(): none of its steps changes
\* the durable settings, so the durable mecab_path does not become the
\* candidate through a test_parse call, and when the call has returned the
\* staged value is the old one again.
C14_TestParseCommitsNothing ==
    [][\A t \in Threads :
          (req'[t] # req[t] /\ "test_parse" \in {req[t].op, req'[t].op})
              => /\ durable' = durable
                 /\ req'[t].flushes = 0
                 /\ (req'[t].pc = "done" /\ req'[t].outcome = "returned")
                        => store'["mecab_path"] = req'[t].old]_vars

\* A test_parse of a candidate other than the setting has written it,
\* probed and returned; the durable mecab_path is not the candidate.
C14_Witness ==
    \E t \in Threads :
        /\ Done(t, "test_parse") /\ req[t].outcome = "returned"
        /\ req[t].wrote = "ok" /\ req[t].flushes = 0
        /\ req[t].value # req[t].old
        /\ durable["mecab_path"] # req[t].value
        /\ durable["mecab_path"] = req[t].old

\* C15: whenever set_parser asks get_parser for the instance and the
\* registry holds none, the construction is attempted from the settings as
\* they are, whatever happened before; when it fails the error leaves
\* set_parser, the registry still holds no instance and switch_tagger is
\* not invoked, and when it succeeds the registry holds the new instance.
C15_FailedConstructionLeavesNoInstance ==
    [][\A t \in Threads :
          (req[t].pc = "sp_get" /\ req'[t] # req[t] /\ parser = NoParser)
              => IF CanConstruct(get_value("mecab_path"))
                 THEN /\ parser' # NoParser
                      /\ parser'.mecab = get_value("mecab_path")
                      /\ req'[t].pc = "sp_switch"
                 ELSE /\ parser' = NoParser
                      /\ regBuilt' = regBuilt
                      /\ req'[t].pc = "done"
                      /\ req'[t].outcome = "raised"
                      /\ ~ req'[t].switchCalled]_vars

\* A set_parser found no instance, the construction failed on the mecab
\* path, and the call raised without a switch; the registry is empty.
C15_Witness ==
    \E t \in Threads :
        /\ Done(t, "set_parser") /\ req[t].outcome = "raised"
        /\ req[t].sawNone /\ req[t].nbuilt = 0
        /\ ~ req[t].switchCalled
        /\ ~ CanConstruct(get_value("mecab_path"))
        /\ parser = NoParser /\ regBuilt = 0

C17_SingleKeyStateMachine ==
    \A t \in Threads :
        /\ req[t].pc = "tp_probe" =>
               /\ req[t].wrote = "ok"
               /\ get_value("mecab_path") = req[t].value
        /\ (req[t].pc = "tp_restore" /\ req[t].wrote = "ok") =>
               req[t].result # Placeholder
        /\ Done(t, "test_parse") =>
               /\ req[t].outcome = "returned"
               /\ req[t].wrote # "none"
               /\ get_value("mecab_path") = req[t].old
        /\ req[t].pc = "skv_commit" => req[t].wrote # "none"
        /\ Done(t, "set_key_value") =>
               \/ /\ req[t].outcome = "returned" /\ req[t].wrote = "ok"
                  /\ req[t].flushes = 1
               \/ /\ req[t].outcome = "returned" /\ req[t].wrote = "failed"
                  /\ get_value(req[t].key) = req[t].old

\* C18: a test_parse that returns reports success with the tokens of the
\* parse in their order and without the paragraph marker, or failure with
\* the kind of the error; the placeholder of line 129 is never returned.
C18_TestParseResult ==
    \A t \in Threads :
        (Done(t, "test_parse") /\ req[t].outcome = "returned") =>
            /\ req[t].result # Placeholder
            /\ \/ /\ req[t].result.result = "success"
                  /\ req[t].result.message = <<"watashi", "wa", "genki", "desu">>
                  /\ req[t].nbuilt = 1
               \/ /\ req[t].result.result = "failure"
                  /\ req[t].result.message \in
                         {<<"UnknownKeyError">>, <<"ParserInitError">>, <<"ParseError">>}

\* A test_parse whose probe parsed the sentence has returned its tokens.
C18_Witness ==
    \E t \in Threads :
        /\ Done(t, "test_parse") /\ req[t].outcome = "returned"
        /\ req[t].result.result = "success"
        /\ Len(req[t].result.message) = 4

\* C19: the registry's instance is never constructed from a tentative
\* test value: when get_parser constructs the instance while a test_parse
\* is between its write of a candidate other than the setting and its
\* write-back, the instance is not built with that candidate.
C19_NoInstanceFromCandidate ==
    [][\A t, u \in Threads :
          (/\ req[t].pc = "sp_get" /\ parser = NoParser /\ parser' # NoParser
           /\ req[u].op = "test_parse" /\ req[u].wrote = "ok"
           /\ req[u].pc \in {"tp_probe", "tp_restore"}
           /\ req[u].value # req[u].old)
              => parser'.mecab # req[u].value]_vars

\* C20: no step of set_key_value(k, v) or of test_parse changes the staged
\* or the durable value of a key other than its own, and no step of
\* set_parser changes any setting, unidic_types included.
C20_Frame ==
    [][\A t \in Threads :
          req'[t] # req[t] =>
              LET op == IF req[t].op = "idle" THEN req'[t].op ELSE req[t].op
                  key == IF req[t].op = "idle" THEN req'[t].key ELSE req[t].key
              IN  /\ op \in {"set_key_value", "test_parse"} =>
                      \A k \in DOMAIN store \ {key} :
                          store'[k] = store[k] /\ durable'[k] = durable[k]
                  /\ op = "set_parser" =>
                      store' = store /\ durable' = durable]_vars

\* A set_parser has switched the instance to a variant that is not the
\* stored unidic_types, which is as it was.
C20_Witness ==
    \E t \in Threads :
        /\ Done(t, "set_parser") /\ req[t].switchCalled
        /\ req[t].outcome = "returned"
        /\ parser.variant = req[t].value
        /\ get_value("unidic_types") # req[t].value
        /\ durable["unidic_types"] # req[t].value

=============================================================================
